---- MODULE Spec2Model ----
(***************************************************************************)
(* The exam session of src/index.tsx (component ExamApp): the AppState     *)
(* value held by useState, the handlers that replace it, the controls the  *)
(* render pass offers for each step, and the asynchronous uploads          *)
(* (extractTextFromPDF, then generateQuestions) that are in flight.        *)
(***************************************************************************)
EXTENDS Integers, Sequences, FiniteSets, TLC

VARIABLES state, tasks, mounted

vars == <<state, tasks, mounted>>

(* ------------------------------ bounds -------------------------------- *)

\* Uploads accepted over one run of the model.
MaxUploads == 2

\* Longest candidate list the generation service returns in the model.
MaxQuestions == 2

(* ------------------------------ values -------------------------------- *)

\* error: string | null
Null == "null"

ErrNotPdf == "Please upload a PDF file only"
ErrReadPdf == "Could not read the PDF file"
ErrAnalyze == "Error while analysing the PDF"

\* interface Question (explanation is display-only and left out)
Q(id, text, options, correctAnswer) ==
    [id |-> id, text |-> text, options |-> options, correctAnswer |-> correctAnswer]

\* Candidate records the generation service may return: a well-formed one,
\* one offering the empty string as an option, and a malformed one.
QuestionPool ==
    { Q(1, "t1", <<"a", "b">>, "a"),
      Q(2, "t2", <<"", "b">>, "b"),
      Q(3, "", <<"a">>, "c") }

\* Every option text that occurs, and one that occurs nowhere.
OptionTexts == {"", "a", "b", "zzz"}

RECURSIVE SeqsUpTo(_, _)
SeqsUpTo(S, n) ==
    IF n = 0 THEN { <<>> }
    ELSE LET shorter == SeqsUpTo(S, n - 1)
         IN shorter \cup { Append(q, x) : q \in { r \in shorter : Len(r) = n - 1 }, x \in S }

\* The lists the generation service returns in the model: candidates of the
\* pool in the order of their ids, at most MaxQuestions of them.
CandidateLists ==
    { qs \in SeqsUpTo(QuestionPool, MaxQuestions) :
        \A i, j \in 1..Len(qs) : i < j => qs[i].id < qs[j].id }

\* What `await ai.models.generateContent` and JSON.parse can deliver: a
\* rejection or malformed text (kind "throw"), an object without a questions
\* field (present = FALSE), or an object with a list.
Responses ==
    { [kind |-> "throw", present |-> FALSE, questions |-> <<>>],
      [kind |-> "json", present |-> FALSE, questions |-> <<>>] }
    \cup { [kind |-> "json", present |-> TRUE, questions |-> qs] :
             qs \in CandidateLists }

\* userAnswers: Record<number, string>
NoAnswers == [i \in {} |-> ""]

(* ---------------------------- shuffleArray ---------------------------- *)

\* The swap written as a single assignment, losing newArray[i].
SwapOverwrite(arr, i, j) == [arr EXCEPT ![i] = arr[j]]

Swap(arr, i, j) == [arr EXCEPT ![i] = arr[j], ![j] = arr[i]]

\* The loop of shuffleArray from index i down (1-based here): every value
\* Math.floor(Math.random() * (i + 1)) can take is a possible j.
RECURSIVE FisherYates(_, _)
FisherYates(arr, i) ==
    IF i <= 1 THEN { arr }
    ELSE UNION { FisherYates(Swap(arr, i, j), i - 1) : j \in 1..i }

\* The set of arrays shuffleArray(array) can return.
shuffleArray(array) == FisherYates(array, Len(array))

\* shuffleArray(qs).map(q => ({...q, options: shuffleArray(q.options)}))
ShuffleOptions(p) ==
    LET orders == UNION { shuffleArray(p[k].options) : k \in 1..Len(p) }
        picks == { c \in [1..Len(p) -> orders] :
                     \A k \in 1..Len(p) : c[k] \in shuffleArray(p[k].options) }
    IN { [k \in 1..Len(p) |-> [p[k] EXCEPT !.options = c[k]]] : c \in picks }

Randomize(qs) == UNION { ShuffleOptions(p) : p \in shuffleArray(qs) }

\* Randomize over the lists the service returns, tabulated once.
RandomizedQuestions == [qs \in CandidateLists |-> Randomize(qs)]

\* Randomize over the lists an exam can hold, tabulated once, for the
\* reshuffle of retakeCurrent; any other list is computed on the spot.
RandomizedExams ==
    [qs \in UNION { RandomizedQuestions[l] : l \in CandidateLists } |-> Randomize(qs)]

Reshuffle(qs) ==
    IF qs \in DOMAIN RandomizedExams THEN RandomizedExams[qs] ELSE Randomize(qs)

(* ------------------------------ handlers ------------------------------ *)

\* useState<AppState>({...}) and the value restartFull sets
InitialState ==
    [step |-> "upload", questions |-> <<>>, currentQuestionIndex |-> 0,
     userAnswers |-> NoAnswers, isLoading |-> FALSE, error |-> Null]

\* first setState of generateQuestions
generateQuestionsStart(s) ==
    [s EXCEPT !.step = "parsing", !.isLoading = TRUE, !.error = Null]

\* HasQuestions with the length test left out.
HasQuestionsNoLength(resp) == resp.kind = "json" /\ resp.present

\* data.questions && data.questions.length > 0
HasQuestions(resp) ==
    /\ resp.kind = "json"
    /\ resp.present
    /\ Len(resp.questions) > 0

generateQuestionsSuccess(s, randomizedQuestions) ==
    [s EXCEPT !.step = "exam", !.questions = randomizedQuestions, !.isLoading = FALSE]

generateQuestionsCatch(s) ==
    [s EXCEPT !.step = "upload", !.isLoading = FALSE, !.error = ErrAnalyze]

\* The branch generateQuestions ends in: the success branch, the throw for an
\* empty or missing list, or the catch of a rejected call.
generateQuestionsOutcome(resp) ==
    IF HasQuestions(resp) THEN "succeeded"
    ELSE IF resp.kind = "json" THEN "empty"
    ELSE "generateFailed"

\* The states generateQuestions can leave once its await has settled.
generateQuestionsSettle(s, resp) ==
    IF HasQuestions(resp)
    THEN { generateQuestionsSuccess(s, r) : r \in RandomizedQuestions[resp.questions] }
    ELSE { generateQuestionsCatch(s) }

\* catch branch of handleFileUpload
handleFileUploadCatch(s) == [s EXCEPT !.error = ErrReadPdf]

\* The type check placed after the first setState of generateQuestions.
handleFileUploadNotPdfLate(s) ==
    [s EXCEPT !.step = "parsing", !.isLoading = TRUE, !.error = ErrNotPdf]

\* file.type !== 'application/pdf'
handleFileUploadNotPdf(s) == [s EXCEPT !.error = ErrNotPdf]

\* selectAnswer with the spread of prev.userAnswers left out.
selectAnswerNoSpread(s, answer) ==
    [s EXCEPT !.userAnswers = (s.currentQuestionIndex :> answer)]

selectAnswer(s, answer) ==
    [s EXCEPT !.userAnswers = (s.currentQuestionIndex :> answer) @@ s.userAnswers]

nextQuestion(s) ==
    IF s.currentQuestionIndex < Len(s.questions) - 1
    THEN [s EXCEPT !.currentQuestionIndex = s.currentQuestionIndex + 1]
    ELSE [s EXCEPT !.step = "results"]

\* prevQuestion with the bound of its test off by one.
prevQuestionOffByOne(s) ==
    IF s.currentQuestionIndex > 1
    THEN [s EXCEPT !.currentQuestionIndex = s.currentQuestionIndex - 1]
    ELSE s

prevQuestion(s) ==
    IF s.currentQuestionIndex > 0
    THEN [s EXCEPT !.currentQuestionIndex = s.currentQuestionIndex - 1]
    ELSE s

\* restartFull written as an update of the previous state that leaves the
\* error out.
restartFullKeepError(s) == [InitialState EXCEPT !.error = s.error]

restartFull(s) == InitialState

\* retakeCurrent with the reset of currentQuestionIndex left out.
retakeCurrentKeepIndex(s) ==
    { [s EXCEPT !.step = "exam", !.questions = r,
                !.userAnswers = NoAnswers, !.error = Null] :
        r \in Reshuffle(s.questions) }

\* The states retakeCurrent can leave, one per outcome of the reshuffle.
retakeCurrent(s) ==
    { [s EXCEPT !.step = "exam", !.questions = r, !.currentQuestionIndex = 0,
                !.userAnswers = NoAnswers, !.error = Null] :
        r \in Reshuffle(s.questions) }

(* ------------------------------ scoring ------------------------------- *)

\* correctCount * 2
PointsPerQuestion == 2

\* The forEach of calculateResults over the first n questions: a missing
\* answer is undefined, which is === to no correctAnswer.
RECURSIVE CountCorrect(_, _)
CountCorrect(s, n) ==
    IF n = 0 THEN 0
    ELSE CountCorrect(s, n - 1)
         + (IF /\ (n - 1) \in DOMAIN s.userAnswers
               /\ s.userAnswers[n - 1] = s.questions[n].correctAnswer
            THEN 1 ELSE 0)

\* The forEach counting every position that has an answer.
RECURSIVE CountAnswered(_, _)
CountAnswered(s, n) ==
    IF n = 0 THEN 0
    ELSE CountAnswered(s, n - 1) + (IF (n - 1) \in DOMAIN s.userAnswers THEN 1 ELSE 0)

\* calculateResults counting the answered positions instead of the correct ones.
calculateResultsAnswered(s) ==
    [correct |-> CountAnswered(s, Len(s.questions)),
     total |-> Len(s.questions),
     score |-> CountAnswered(s, Len(s.questions)) * PointsPerQuestion]

calculateResults(s) ==
    [correct |-> CountCorrect(s, Len(s.questions)),
     total |-> Len(s.questions),
     score |-> CountCorrect(s, Len(s.questions)) * PointsPerQuestion]

\* Math.round((results.correct / results.total) * 100): 0 / 0 is NaN and
\* Math.round(NaN) is NaN; otherwise the quotient is rounded, halves upward.
percentage(results) ==
    IF results.total = 0
    THEN [nan |-> TRUE, value |-> 0]
    ELSE [nan |-> FALSE,
          value |-> (200 * results.correct + results.total) \div (2 * results.total)]

(* ------------------------------- render ------------------------------- *)

UploadRendered(s) == s.step = "upload"

ExamRendered(s) == s.step = "exam" /\ Len(s.questions) > 0

ResultsRendered(s) == s.step = "results"

\* state.questions[state.currentQuestionIndex].text with the index past the
\* end reads a property of undefined: the render throws and React unmounts
\* the tree.
RenderThrows(s) == ExamRendered(s) /\ s.currentQuestionIndex >= Len(s.questions)

\* The question on screen (questions is 1-based here, the index 0-based).
CurrentQuestion(s) == s.questions[s.currentQuestionIndex + 1]

\* The option buttons of the exam view.
OptionButtons(s) == { CurrentQuestion(s).options[k] : k \in 1..Len(CurrentQuestion(s).options) }

\* JavaScript truthiness of state.userAnswers[i]: undefined and "" are falsy.
Truthy(s, i) == i \in DOMAIN s.userAnswers /\ s.userAnswers[i] # ""

\* The disabled guard reading the first position instead of the current one.
NextDisabledFirst(s) == ~Truthy(s, 0)

\* disabled={!state.userAnswers[state.currentQuestionIndex]}
NextDisabled(s) == ~Truthy(s, s.currentQuestionIndex)

\* disabled={state.currentQuestionIndex === 0}
PrevDisabled(s) == s.currentQuestionIndex = 0

\* A click on the Next button: a disabled button dispatches no click.
clickNext(s) == IF NextDisabled(s) THEN s ELSE nextQuestion(s)

\* A click on the Back button.
clickPrev(s) == IF PrevDisabled(s) THEN s ELSE prevQuestion(s)

(* ------------------------------ actions ------------------------------- *)

\* tasks[t] is where the t-th accepted upload stands: awaiting
\* extractTextFromPDF, awaiting the generation call, or the branch it ended in.
Pending(pc) == pc \in {"extracting", "generating"}

\* interface AppState, the positions of the uploads, and whether the
\* component is still mounted.
TypeOK ==
    /\ state.step \in {"upload", "parsing", "exam", "results"}
    /\ state.currentQuestionIndex \in Nat
    /\ \A i \in DOMAIN state.userAnswers : i \in Nat /\ state.userAnswers[i] \in OptionTexts
    /\ state.isLoading \in BOOLEAN
    /\ state.error \in {Null, ErrNotPdf, ErrReadPdf, ErrAnalyze}
    /\ \A t \in DOMAIN tasks :
          tasks[t] \in {"extracting", "generating", "extractFailed",
                        "generateFailed", "empty", "succeeded"}
    /\ mounted \in BOOLEAN

Init ==
    /\ state = InitialState
    /\ tasks = <<>>
    /\ mounted = TRUE

\* setState followed by the render pass it triggers.
Commit(s) ==
    /\ state' = s
    /\ mounted' = ~RenderThrows(s)

\* onChange of the file input, which only the upload step renders.
HandleFileUpload(file) ==
    /\ mounted
    /\ UploadRendered(state)
    /\ Len(tasks) < MaxUploads
    /\ CASE file = "none" -> UNCHANGED vars
         [] file = "other" -> Commit(handleFileUploadNotPdf(state)) /\ UNCHANGED tasks
         [] file = "pdf" -> tasks' = Append(tasks, "extracting") /\ UNCHANGED <<state, mounted>>

\* extractTextFromPDF resolves and generateQuestions runs up to its await.
ExtractResolved(t) ==
    /\ mounted
    /\ tasks[t] = "extracting"
    /\ tasks' = [tasks EXCEPT ![t] = "generating"]
    /\ Commit(generateQuestionsStart(state))

\* extractTextFromPDF rejects.
ExtractRejected(t) ==
    /\ mounted
    /\ tasks[t] = "extracting"
    /\ tasks' = [tasks EXCEPT ![t] = "extractFailed"]
    /\ Commit(handleFileUploadCatch(state))

\* The generation call settles and generateQuestions runs to its end.
GenerateSettled(t, resp) ==
    /\ mounted
    /\ tasks[t] = "generating"
    /\ tasks' = [tasks EXCEPT ![t] = generateQuestionsOutcome(resp)]
    /\ \E s \in generateQuestionsSettle(state, resp) : Commit(s)

ClickOption(option) ==
    /\ mounted
    /\ ExamRendered(state)
    /\ option \in OptionButtons(state)
    /\ Commit(selectAnswer(state, option))
    /\ UNCHANGED tasks

ClickNext ==
    /\ mounted
    /\ ExamRendered(state)
    /\ Commit(clickNext(state))
    /\ UNCHANGED tasks

ClickPrev ==
    /\ mounted
    /\ ExamRendered(state)
    /\ Commit(clickPrev(state))
    /\ UNCHANGED tasks

ClickRetake ==
    /\ mounted
    /\ ResultsRendered(state)
    /\ \E s \in retakeCurrent(state) : Commit(s)
    /\ UNCHANGED tasks

ClickRestart ==
    /\ mounted
    /\ ResultsRendered(state)
    /\ Commit(restartFull(state))
    /\ UNCHANGED tasks

Next ==
    \/ \E file \in {"none", "other", "pdf"} : HandleFileUpload(file)
    \/ \E t \in DOMAIN tasks : ExtractResolved(t)
    \/ \E t \in DOMAIN tasks : ExtractRejected(t)
    \/ \E t \in DOMAIN tasks, resp \in Responses : GenerateSettled(t, resp)
    \/ \E option \in OptionTexts : ClickOption(option)
    \/ ClickNext
    \/ ClickPrev
    \/ ClickRetake
    \/ ClickRestart

Spec == Init /\ [][Next]_vars

\* `await extractTextFromPDF(file)` of upload t returns or fails.
ExtractionReturns(t) ==
    /\ t \in DOMAIN tasks
    /\ (ExtractResolved(t) \/ ExtractRejected(t))

\* `await ai.models.generateContent(...)` of upload t returns or fails.
GenerationReturns(t) ==
    /\ t \in DOMAIN tasks
    /\ \E resp \in Responses : GenerateSettled(t, resp)

\* Every external call of every upload eventually returns or fails; the user
\* is under no obligation to click anything.
LiveSpec ==
    /\ Spec
    /\ \A t \in 1..MaxUploads :
          WF_vars(ExtractionReturns(t)) /\ WF_vars(GenerationReturns(t))

(* ------------------------------- claims ------------------------------- *)

LastIndex(s) == Len(s.questions) - 1

Answered(s, i) == i \in DOMAIN s.userAnswers

\* The exam view is on screen.
Active == mounted /\ ExamRendered(state)

\* C1: once a later upload has been accepted, the result of an earlier
\* upload that was still pending (success or failure) changes no field of
\* the session when it arrives.
C1_StaleResultDiscarded ==
    [][\A t \in DOMAIN tasks :
          (t < Len(tasks) /\ Pending(tasks[t]) /\ ~Pending(tasks'[t]))
              => state' = state]_vars

\* C2: selectAnswer, nextQuestion and prevQuestion invoked outside the exam
\* step, and retakeCurrent invoked outside the results step, leave the
\* session as it was.
C2_WrongPhaseRejected ==
    /\ state.step # "exam" =>
          /\ \A a \in OptionTexts : selectAnswer(state, a) = state
          /\ nextQuestion(state) = state
          /\ prevQuestion(state) = state
    /\ state.step # "results" => retakeCurrent(state) = {state}

\* C3: while the step is exam the index is within the questions, and every
\* key of userAnswers is a position of questions.
C3_IndexBounds ==
    /\ state.step = "exam" =>
          /\ 0 <= state.currentQuestionIndex
          /\ state.currentQuestionIndex < Len(state.questions)
    /\ DOMAIN state.userAnswers \subseteq 0..LastIndex(state)

\* C4: a successful generation result leaves step exam, index 0 and no
\* answers, whatever they were before.
C4_SuccessResets ==
    [][\A t \in DOMAIN tasks :
          (tasks[t] = "generating" /\ tasks'[t] = "succeeded")
              => /\ state'.step = "exam"
                 /\ state'.currentQuestionIndex = 0
                 /\ state'.userAnswers = NoAnswers]_vars

\* C5: an ingestion failure (extraction, generation or empty result) leaves
\* step upload, an error message, no questions and no answers.
C5_FailureDiscards ==
    [][\A t \in DOMAIN tasks :
          (Pending(tasks[t]) /\ tasks'[t] \in {"extractFailed", "generateFailed", "empty"})
              => /\ state'.step = "upload"
                 /\ state'.error # Null
                 /\ state'.questions = <<>>
                 /\ state'.userAnswers = NoAnswers]_vars

\* C6: a result with no questions leaves step upload with an error and never
\* step exam, and no state in step exam or results has an empty questions.
C6_NoEmptyExam ==
    state.step \in {"exam", "results"} => Len(state.questions) > 0

C6_EmptyResultFails ==
    [][\A t \in DOMAIN tasks :
          (tasks[t] = "generating" /\ tasks'[t] = "empty")
              => state'.step = "upload" /\ state'.error # Null]_vars

C6_EmptyResultNeverActive == []C6_NoEmptyExam /\ C6_EmptyResultFails

C6_Witness ==
    /\ \E t \in DOMAIN tasks : tasks[t] = "empty"
    /\ state.step = "upload"
    /\ state.error = ErrAnalyze

\* C7: a click on Next in the exam step changes nothing when the current
\* position has no answer, moves the index up by one when it has one and is
\* not the last, ends the exam when it has one and is the last, and never
\* changes userAnswers or questions.
C7_Advance ==
    Active =>
        LET s2 == clickNext(state)
            c == state.currentQuestionIndex
        IN /\ ~Answered(state, c) => s2 = state
           /\ (Answered(state, c) /\ c # LastIndex(state)) =>
                 s2.currentQuestionIndex = c + 1 /\ s2.step = "exam"
           /\ (Answered(state, c) /\ c = LastIndex(state)) => s2.step = "results"
           /\ s2.userAnswers = state.userAnswers
           /\ s2.questions = state.questions

\* C8: in the results step every position of questions has an answer.
C8_CompletedAllAnswered ==
    state.step = "results" => \A i \in 0..LastIndex(state) : Answered(state, i)

C8_Witness == state.step = "results" /\ Len(state.questions) >= 2

\* C9: selectAnswer in the exam step records the option at the current
\* position and changes nothing else; repeated it changes nothing more, and
\* another option replaces the recorded one.
C9_SelectAnswerFrame ==
    Active =>
        \A option \in OptionButtons(state) :
            LET s2 == selectAnswer(state, option)
                c == state.currentQuestionIndex
            IN /\ DOMAIN s2.userAnswers = DOMAIN state.userAnswers \cup {c}
               /\ s2.userAnswers[c] = option
               /\ \A i \in DOMAIN state.userAnswers \ {c} :
                     s2.userAnswers[i] = state.userAnswers[i]
               /\ s2 = [state EXCEPT !.userAnswers = s2.userAnswers]
               /\ selectAnswer(s2, option) = s2
               /\ \A other \in OptionButtons(state) :
                     selectAnswer(s2, other) = selectAnswer(state, other)

C9_Witness ==
    /\ Active
    /\ state.currentQuestionIndex = 1
    /\ Answered(state, 0)
    /\ Answered(state, 1)
    /\ state.userAnswers[1] \in OptionButtons(state)

\* C10: selectAnswer in the exam step with a value that is not an option of
\* the current question leaves the session as it was.
C10_OutOfSetRejected ==
    Active =>
        \A a \in OptionTexts \ OptionButtons(state) : selectAnswer(state, a) = state

\* The bijections of 1..n.
Bijections(n) == { f \in [1..n -> 1..n] : \A i, j \in 1..n : f[i] = f[j] => i = j }

\* b holds the elements of a, each as often, in some order.
IsPermutation(a, b) ==
    /\ Len(a) = Len(b)
    /\ \E f \in Bijections(Len(a)) : \A k \in 1..Len(a) : b[k] = a[f[k]]

\* C11: prevQuestion in the exam step with the index above 0 lowers it by
\* exactly one, answered or not, and changes nothing else; at index 0 it
\* changes nothing. The Back button does the same.
C11_Retreat ==
    Active =>
        LET s2 == prevQuestion(state)
            c == state.currentQuestionIndex
        IN /\ c > 0 => s2 = [state EXCEPT !.currentQuestionIndex = c - 1]
           /\ c = 0 => s2 = state
           /\ clickPrev(state) = s2

\* Index 0 with position 1 answered: the user went forward and came back.
C11_Witness ==
    /\ Active
    /\ state.currentQuestionIndex = 0
    /\ Answered(state, 1)
    /\ Len(state.questions) >= 2

\* C12: retakeCurrent from the results step leaves step exam, index 0, no
\* answers and no error, and questions holding the same questions in some
\* order, each with its id, text and correctAnswer and with its options in
\* some order.
C12_Retake ==
    state.step = "results" =>
        \A s2 \in retakeCurrent(state) :
            /\ s2.step = "exam"
            /\ s2.currentQuestionIndex = 0
            /\ s2.userAnswers = NoAnswers
            /\ s2.error = Null
            /\ Len(s2.questions) = Len(state.questions)
            /\ \E f \in Bijections(Len(state.questions)) :
                  \A k \in 1..Len(state.questions) :
                      LET old == state.questions[f[k]]
                          new == s2.questions[k]
                      IN /\ new.id = old.id
                         /\ new.text = old.text
                         /\ new.correctAnswer = old.correctAnswer
                         /\ IsPermutation(old.options, new.options)

\* A finished exam of two questions, past its first index, whose retake has
\* more than one outcome.
C12_Witness ==
    /\ mounted
    /\ state.step = "results"
    /\ Len(state.questions) >= 2
    /\ state.currentQuestionIndex > 0
    /\ Cardinality(retakeCurrent(state)) > 1

\* C13: restartFull, from whatever step, leaves step upload with no
\* questions, no answers, index 0 and no error.
C13_Restart ==
    LET s2 == restartFull(state)
    IN /\ s2.step = "upload"
       /\ s2.questions = <<>>
       /\ s2.userAnswers = NoAnswers
       /\ s2.currentQuestionIndex = 0
       /\ s2.error = Null

\* An upload succeeded and the session is back at its initial value: the
\* New file button was used.
C13_Witness ==
    /\ \E t \in DOMAIN tasks : tasks[t] = "succeeded"
    /\ state = InitialState

\* The positions whose recorded answer is the question's correctAnswer.
CorrectPositions(s) ==
    { i \in 0..LastIndex(s) :
        Answered(s, i) /\ s.userAnswers[i] = s.questions[i + 1].correctAnswer }

\* C14: in the results step calculateResults counts the positions that are
\* answered with the correctAnswer, reports the number of questions as the
\* total and twice the count as the score.
C14_Score ==
    state.step = "results" =>
        LET r == calculateResults(state)
        IN /\ r.correct = Cardinality(CorrectPositions(state))
           /\ r.total = Len(state.questions)
           /\ r.score = 2 * r.correct

\* A finished exam with one answer right and one wrong.
C14_Witness ==
    /\ state.step = "results"
    /\ Len(state.questions) = 2
    /\ Cardinality(CorrectPositions(state)) = 1

\* C15: the percentage computed from the session is an integer in 0..100
\* nearest to 100 * correct / total, and is 0 when there are no questions.
C15_Percentage ==
    LET r == calculateResults(state)
        p == percentage(r)
    IN /\ ~p.nan
       /\ p.value \in 0..100
       /\ r.total = 0 => p.value = 0
       /\ r.total > 0 =>
             /\ 2 * (r.total * p.value - 100 * r.correct) <= r.total
             /\ 2 * (100 * r.correct - r.total * p.value) <= r.total

\* How often x occurs in seq.
Count(seq, x) == Cardinality({ k \in DOMAIN seq : seq[k] = x })

\* Arrays handed to shuffleArray in the check: every array of these values,
\* repeated values included, one longer than the longest question list.
ShuffleValues == {"", "a", "b"}

ShuffleInputs == SeqsUpTo(ShuffleValues, MaxQuestions + 1)

\* Every outcome of shuffleArray on every input has the input's length and
\* holds each value as often; an input of at most one element comes back
\* with its contents.
ShufflePermutesInputs ==
    \A arr \in ShuffleInputs :
        /\ \A r \in shuffleArray(arr) :
              /\ Len(r) = Len(arr)
              /\ \A x \in ShuffleValues : Count(r, x) = Count(arr, x)
        /\ Len(arr) <= 1 => shuffleArray(arr) = {arr}

\* C16: shuffleArray returns, for every outcome of the random choices, an
\* array of the same length holding the same elements as often, on the
\* inputs above and on the questions retakeCurrent hands to it.
C16_ShufflePermutes ==
    /\ ShufflePermutesInputs
    /\ state.step = "results" =>
          \A r \in shuffleArray(state.questions) : IsPermutation(state.questions, r)

\* The questions on screen are in another order than the service returned.
C16_Witness ==
    /\ state.step = "exam"
    /\ Len(state.questions) = 2
    /\ state.questions[1].id > state.questions[2].id

\* The options of q as a set.
OptionSet(q) == { q.options[k] : k \in 1..Len(q.options) }

\* C17: in the exam and results steps every question has a non-empty text,
\* at least two distinct options and a correctAnswer among its options.
C17_QuestionsValid ==
    state.step \in {"exam", "results"} =>
        \A k \in 1..Len(state.questions) :
            LET q == state.questions[k]
            IN /\ q.text # ""
               /\ Cardinality(OptionSet(q)) >= 2
               /\ q.correctAnswer \in OptionSet(q)

\* C18: a file that is not a PDF starts no extraction or generation and
\* changes nothing of the session but the error message.
C18_NotPdfRejected ==
    [][(state'.error = ErrNotPdf /\ state.error # ErrNotPdf)
          => /\ tasks' = tasks
             /\ state' = [state EXCEPT !.error = ErrNotPdf]]_vars

\* The message for a non-PDF file is shown on the upload step, with an
\* earlier upload still in flight.
C18_Witness ==
    /\ state.error = ErrNotPdf
    /\ state.step = "upload"
    /\ \E t \in DOMAIN tasks : Pending(tasks[t])

\* C19: while the exam stays on screen no step changes questions (retake,
\* restart and a new upload are only offered on other steps).
C19_QuestionsFixed ==
    [][(state.step = "exam" /\ state'.step = "exam")
          => state'.questions = state.questions]_vars

\* C20: a position with a recorded answer, the empty string included,
\* counts as answered: Next is enabled on it.
C20_EmptyStringAnswered ==
    (Active /\ Answered(state, state.currentQuestionIndex)) => ~NextDisabled(state)

\* The upload step with its file input on screen, where a new upload is
\* accepted.
Idle == mounted /\ UploadRendered(state)

\* The t-th upload ends in a failure in this step: its extraction rejects,
\* its generation call rejects, or its result has no questions.
FailureApplied(t) ==
    /\ t \in DOMAIN tasks
    /\ Pending(tasks[t])
    /\ tasks'[t] \in {"extractFailed", "generateFailed", "empty"}

\* Whenever the parsing step is shown, the exam view or the upload view is
\* eventually on screen.
C21_ParsingLeadsOut == (state.step = "parsing") ~> (Active \/ Idle)

\* The step in which an upload fails ends on the upload step.
C21_FailureLeavesIdle ==
    [][(\E t \in DOMAIN tasks : FailureApplied(t)) => Idle']_vars

\* C21: ingestion never leaves the session stuck. With every extraction and
\* generation call eventually returning or failing, the parsing step always
\* leads to the exam view or to the upload view, and every failure of an
\* upload leaves the session on the upload view, where the file input
\* accepts a new upload.
C21_IngestionNeverStuck == C21_ParsingLeadsOut /\ C21_FailureLeavesIdle

\* What does hold under the same fairness: the parsing step is always left,
\* because the upload that last set it is still awaiting its generation call
\* and both branches of generateQuestions set another step.
ParsingStepIsLeft == (state.step = "parsing") ~> (state.step # "parsing")

====
